---- MODULE Spec2Model ----
(***************************************************************************)
(* The inter-service call layer of the galaxy template                     *)
(* (src/src/lib/galaxy-utils.ts): callFeatureAPI and its retry loop, the   *)
(* fan-out operations built on it, and the role gates.                     *)
(*                                                                         *)
(* One public operation runs at a time.  It launches zero or more member   *)
(* calls (calls[i]); each member is one execution of callFeatureAPI (or of *)
(* checkFeatureHealth) with its own AbortController and timer.  An action  *)
(* is one macrotask of the JavaScript event loop: everything the code does *)
(* between two suspension points (a network event, a timer) is one step.   *)
(***************************************************************************)
EXTENDS Integers, Sequences, FiniteSets, TLC

VARIABLES galaxyConfig, op, calls, order, ret

vars == <<galaxyConfig, op, calls, order, ret>>

(***************************************************************************)
(* Bounds of the model.                                                    *)
(***************************************************************************)
\* options.retries of a single call ranges over -1 and 0..MaxRetries.
MaxRetries == 3
\* A batch holds at most MaxBatch requests ...
MaxBatch == 2
\* ... whose retries sum to at most MaxBatchAttempts.
MaxBatchAttempts == 3
\* The most path segments of an endpoint handed to checkFeatureHealth.
MaxSegments == 2

(***************************************************************************)
(* JSON values are tuples of strings, so that any two can be compared.     *)
(* An optional field is <<>> (absent) or <<v>> (present).                  *)
(***************************************************************************)
Absent == <<>>
Present(v) == <<v>>

Range(s) == {s[i] : i \in DOMAIN s}

\* { ...b, ...a }: the keys of both, a's value where both have the key.
SpreadUnder(a, b) ==
  [k \in (DOMAIN a) \cup (DOMAIN b) |-> IF k \in DOMAIN a THEN a[k] ELSE b[k]]

\* { ...a, ...b }: the keys of both, b's value where both have the key.
Spread(a, b) ==
  [k \in (DOMAIN a) \cup (DOMAIN b) |-> IF k \in DOMAIN b THEN b[k] ELSE a[k]]

(***************************************************************************)
(* Configuration: the instance's role and identity and its Registry        *)
(* (galaxyConfig.related).  apiEndpoint "" is an absent endpoint.          *)
(***************************************************************************)
\* A URL is the sequence of its slashes and of the texts between them:
\* 'https://a.example/api/generate' is
\* <<"https:", "/", "/", "a.example", "/", "api", "/", "generate">>.
Origin(host) == <<"https:", "/", "/", host>>

NoEndpoint == <<>>

\* The path at which a feature instance built from the template serves its
\* route handlers, POST and the liveness GET: app/api/feature/route.ts.
FeatureRoute == <<"/", "api", "/", "feature">>

\* The URLs such an instance answers with a handler of its own, given the
\* apiEndpoint it is registered with; any other path is a 404.
ServedRoutes(apiEndpoint) == {SubSeq(apiEndpoint, 1, Len(Origin("")))  \o FeatureRoute}

EndpointA == Origin("a.example") \o <<"/", "api", "/", "generate">>
EndpointC == Origin("c.example") \o <<"/", "api", "/", "feature">>
EndpointX == Origin("x.example") \o <<"/", "api", "/", "run">>
EndpointY == Origin("y.example") \o <<"/", "api", "/", "run">>

Related ==
  << [id |-> "A", name |-> "Feature A", apiEndpoint |-> EndpointA],
     [id |-> "B", name |-> "Feature B", apiEndpoint |-> NoEndpoint],
     [id |-> "C", name |-> "Feature C", apiEndpoint |-> EndpointC] >>

Configs ==
  { [type |-> "core", id |-> "galaxy-core", name |-> "Galaxy", related |-> Related],
    [type |-> "core", id |-> "galaxy-core", name |-> "Galaxy", related |-> <<>>],
    [type |-> "feature", id |-> "C", name |-> "Feature C", related |-> Related] }

FeatureIds == {"A", "B", "C", "D"}

isCore == galaxyConfig.type = "core"
\* A role test that every configured instance passes.
isConfigured == galaxyConfig.type \in {"core", "feature"}

isFeature == galaxyConfig.type = "feature"

(***************************************************************************)
(* Payloads a caller may pass.                                             *)
(***************************************************************************)
Circular == <<"[Circular]">>

\* A payload that holds a value of its own under every key this layer injects.
Forged ==
  [q |-> <<"x">>, _metadata |-> <<"forged">>, _caller |-> <<"forged">>,
   calledFrom |-> <<"forged">>, coreId |-> <<"forged">>, userId |-> <<"forged">>]

Payloads ==
  { [q |-> <<"x">>],
    Forged,
    [q |-> Circular] }

\* JSON.stringify throws a TypeError on a value it cannot serialise.
Serialisable(body) == \A k \in DOMAIN body : body[k] # Circular

Metadata == <<IF isCore THEN "core" ELSE "feature", "timestamp">>

(***************************************************************************)
(* What the remote can answer.                                             *)
(***************************************************************************)
OkStatuses == {200}
ErrStatuses == {404, 500}

\* object: a JSON object with the fields the reader looks for, the failure
\* body of a feature route: { success: false, error, message };
\* nofields: a JSON value without them ({} or a number); null: JSON null;
\* absent: no body; garbage: not JSON.
BodyKinds == {"object", "nofields", "null", "absent", "garbage"}
Parseable(kind) == kind \in {"object", "nofields", "null"}

\* The body says success: false.
ReportsFailure(kind) == kind = "object"

\* The body an endpoint sends names the endpoint that sent it.
BodyOf(endpoint, kind) == <<kind, endpoint>>

\* `API request failed with status ${response.status}`
StatusText(status) ==
  <<"API request failed with status ",
    CASE status = 404 -> "404" [] status = 500 -> "500" [] OTHER -> "?">>

(***************************************************************************)
(* Errors a try block of callFeatureAPI can catch.                         *)
(***************************************************************************)
AbortError == [isError |-> TRUE, name |-> "AbortError", message |-> "This operation was aborted"]
NetworkError == [isError |-> TRUE, name |-> "TypeError", message |-> "fetch failed"]
SyntaxError == [isError |-> TRUE, name |-> "SyntaxError", message |-> "Unexpected end of JSON input"]
NullDeref == [isError |-> TRUE, name |-> "TypeError", message |-> "Cannot read properties of null"]
StringifyError == [isError |-> TRUE, name |-> "TypeError", message |-> "Converting circular structure to JSON"]
NoError == [isError |-> FALSE, name |-> "", message |-> ""]

(***************************************************************************)
(* FeatureAPIResponse.  A string built from a template is the tuple of its *)
(* parts; a literal string is a tuple of one part.                         *)
(***************************************************************************)
Success(data) ==
  [success |-> TRUE, data |-> Present(data), error |-> Absent, message |-> Absent]
Failure(error, message) ==
  [success |-> FALSE, data |-> Absent, error |-> Present(error), message |-> message]

\* The catch block's return on the last attempt.
ErrorResult(error) ==
  IF error.isError
  THEN IF error.name = "AbortError"
       THEN Failure(<<"Request timeout">>, Present("The request took longer than <timeout>ms"))
       ELSE Failure(<<error.message>>, Present("Failed to connect to feature API"))
  ELSE Failure(<<"Unknown error occurred">>, Present("Please try again later"))

\* The return after the retry loop.
FallThroughResult(lastError) ==
  Failure(IF lastError.isError /\ lastError.message # ""
          THEN <<lastError.message>> ELSE <<"Unknown error">>,
          Present("All retry attempts failed"))

\* error: errorData.error, without the fallback to the status text.
RejectionNoFallback(status, kind) ==
  IF kind = "object"
  THEN Failure(<<"remote error">>, Present("remote message"))
  ELSE [success |-> FALSE, data |-> Absent, error |-> Absent, message |-> Absent]

\* The return for a response that is not ok, given the parsed error body
\* (response.json().catch(() => ({}))): errorData.error || `API request ...`.
RejectionResult(status, kind) ==
  IF kind = "object"
  THEN Failure(<<"remote error">>, Present("remote message"))
  ELSE Failure(StatusText(status), Absent)

(***************************************************************************)
(* One execution of callFeatureAPI (kind "call") or of checkFeatureHealth  *)
(* (kind "probe").                                                         *)
(*   pc       fetching: a fetch is in flight; sleeping: in the backoff     *)
(*            sleep; done: returned; raised: an error escaped to the caller*)
(*   timer    the setTimeout of line 221: armed, cleared or fired          *)
(*   signal   controller.signal: live or aborted                           *)
(*   sleeps   the backoff delays slept so far, in seconds                  *)
(*   fetches  how many times fetch was invoked                             *)
(*   hist     what ended each attempt so far (a record of the run, read    *)
(*            only by the properties)                                      *)
(***************************************************************************)
RECURSIVE Pow2(_)
Pow2(n) == IF n <= 0 THEN 1 ELSE 2 * Pow2(n - 1)

\* Math.pow(attempt, 2): the arguments of the backoff swapped.
BackoffSwapped(attempt) == attempt * attempt

\* Math.pow(2, attempt) * 1000 ms, in seconds.
Backoff(attempt) == Pow2(attempt)

ClearTimeout(timer) == IF timer = "armed" THEN "cleared" ELSE timer

\* { ...payload, _metadata: { callerType, timestamp } }
\* _metadata is left out of a payload that already carries _caller.
enhancedPayloadUnlessCaller(payload) ==
  IF "_caller" \in DOMAIN payload THEN payload
  ELSE Spread(payload, [_metadata |-> Metadata])

enhancedPayload(payload) == Spread(payload, [_metadata |-> Metadata])

NewCall(endpoint, payload, retries) ==
  [kind |-> "call", endpoint |-> endpoint, body |-> enhancedPayload(payload),
   retries |-> retries, pc |-> "start", attempt |-> 0,
   timer |-> "armed", signal |-> "live", lastError |-> NoError,
   sleeps |-> <<>>, fetches |-> 0, hist |-> <<>>,
   result |-> Absent, healthy |-> Absent]

Return(c, result) ==
  [c EXCEPT !.pc = "done", !.result = Present(result)]

\* The catch block that lets the error escape instead of handling it.
CatchRethrow(c, error, event) ==
  [c EXCEPT !.lastError = error, !.hist = Append(@, event), !.pc = "raised"]

\* The catch block: on the last attempt return the error, otherwise sleep.
Catch(c, error, event) ==
  LET c1 == [c EXCEPT !.lastError = error, !.hist = Append(@, event)]
  IN  IF c1.attempt = c1.retries - 1
      THEN Return([c1 EXCEPT !.timer = ClearTimeout(@)], ErrorResult(error))
      ELSE [c1 EXCEPT !.pc = "sleeping", !.sleeps = Append(@, Backoff(c1.attempt))]

\* The body of the try block up to the await of fetch.  JSON.stringify runs
\* before fetch is invoked; fetch on an aborted signal rejects at once.
BeginAttempt(c) ==
  IF ~Serialisable(c.body)
  THEN Catch(c, StringifyError, "unserialisable")
  ELSE IF c.signal = "aborted"
       THEN Catch([c EXCEPT !.fetches = @ + 1], AbortError, "preaborted")
       ELSE [c EXCEPT !.pc = "fetching", !.fetches = @ + 1]

\* do { ... } while (++attempt < retries): the first attempt is made
\* whatever retries is.
LoopAtLeastOnce(c) ==
  IF c.attempt < c.retries \/ c.attempt = 0
  THEN BeginAttempt(c)
  ELSE Return(c, FallThroughResult(c.lastError))

\* The head of the for loop, and the return after it.
Loop(c) ==
  IF c.attempt < c.retries
  THEN BeginAttempt(c)
  ELSE Return(c, FallThroughResult(c.lastError))

\* The response is not ok: the error body is read and the call returns.
\* A body of JSON null makes errorData.error throw inside the try block.
OnRejection(c, status, kind) ==
  IF kind = "null"
  THEN Catch(c, NullDeref, "non2xx-null")
  ELSE Return([c EXCEPT !.hist = Append(@, "non2xx")], RejectionResult(status, kind))

\* The response is ok: the body is parsed and returned as data.
\* if (!data.success) return { success: false, ... }: the flag of the body
\* decides.
OnOkReadingBody(c, kind) ==
  IF Parseable(kind)
  THEN Return([c EXCEPT !.hist = Append(@, "2xx")],
              IF ReportsFailure(kind)
              THEN Failure(<<"remote error">>, Present("remote message"))
              ELSE Success(BodyOf(c.endpoint, kind)))
  ELSE Catch(c, SyntaxError, "2xx-unparseable")

OnOk(c, kind) ==
  IF Parseable(kind)
  THEN Return([c EXCEPT !.hist = Append(@, "2xx")], Success(BodyOf(c.endpoint, kind)))
  ELSE Catch(c, SyntaxError, "2xx-unparseable")

\* fetch resolved with a response: clearTimeout, then by response.ok.
OnResponse(c, status, kind) ==
  LET c1 == [c EXCEPT !.timer = ClearTimeout(@)]
  IN  IF status \in OkStatuses THEN OnOk(c1, kind) ELSE OnRejection(c1, status, kind)

\* fetch rejected with a network error.
OnTransportError(c) == Catch(c, NetworkError, "neterr")

\* controller.abort(): the signal is aborted and a fetch in flight rejects.
OnAbort(c) ==
  LET c1 == [c EXCEPT !.signal = "aborted"]
  IN  IF c.pc = "fetching" THEN Catch(c1, AbortError, "timeout") ELSE c1

\* The backoff sleep is over: attempt++ and back to the loop head.
OnWakeUp(c) == Loop([c EXCEPT !.attempt = @ + 1])

(***************************************************************************)
(* checkFeatureHealth: one GET bounded by AbortSignal.timeout(5000); the   *)
(* response's ok flag, and false for anything thrown.                      *)
(***************************************************************************)
\* s.lastIndexOf('/'), 0 where there is none.
LastSlash(s) ==
  IF \E k \in DOMAIN s : s[k] = "/"
  THEN CHOOSE k \in DOMAIN s : s[k] = "/" /\ \A j \in DOMAIN s : s[j] = "/" => j <= k
  ELSE 0

\* s.replace(/\/[^\/]*$/, '/health'): the last slash and what follows it
\* become '/health'.
ReplaceTail(s) ==
  IF LastSlash(s) = 0 THEN s
  ELSE SubSeq(s, 1, LastSlash(s) - 1) \o <<"/", "health">>

\* s.replace(/\/$/, ''): a slash at the end is dropped.
DropFinalSlash(s) ==
  IF s # <<>> /\ s[Len(s)] = "/" THEN SubSeq(s, 1, Len(s) - 1) ELSE s

\* s.includes('/api/')
IncludesApi(s) ==
  \E k \in DOMAIN s :
    k + 2 \in DOMAIN s /\ s[k] = "/" /\ s[k + 1] = "api" /\ s[k + 2] = "/"


\* const healthEndpoint = endpoint.replace(...).replace(...) + (... ? '' : '/health')
healthEndpoint(endpoint) ==
  DropFinalSlash(ReplaceTail(endpoint))
    \o (IF IncludesApi(endpoint) THEN <<>> ELSE <<"/", "health">>)

NewProbe(endpoint) ==
  [kind |-> "probe", endpoint |-> healthEndpoint(endpoint), body |-> <<>>,
   retries |-> 1, pc |-> "start", attempt |-> 0,
   timer |-> "armed", signal |-> "live", lastError |-> NoError,
   sleeps |-> <<>>, fetches |-> 0, hist |-> <<>>,
   result |-> Absent, healthy |-> Absent]

\* The GET is issued.
BeginProbe(c) == [c EXCEPT !.pc = "fetching", !.fetches = @ + 1]

ProbeReturn(c, event, healthy) ==
  [c EXCEPT !.pc = "done", !.hist = Append(@, event), !.healthy = Present(healthy)]

\* return true for whatever response arrives.
OnProbeAnyResponse(c, status) ==
  ProbeReturn(c, IF status \in OkStatuses THEN "2xx" ELSE "non2xx", TRUE)

OnProbeResponse(c, status) ==
  ProbeReturn(c, IF status \in OkStatuses THEN "2xx" ELSE "non2xx", status \in OkStatuses)

OnProbeError(c) == ProbeReturn(c, "neterr", FALSE)

OnProbeAbort(c) ==
  LET c1 == [c EXCEPT !.signal = "aborted"]
  IN  IF c.pc = "fetching" THEN ProbeReturn(c1, "timeout", FALSE) ELSE c1

(***************************************************************************)
(* The running operation and what it returns.                              *)
(***************************************************************************)
Pending == [kind |-> "pending", value |-> <<>>]
Value(v) == [kind |-> "value", value |-> v]
Raised(message) == [kind |-> "raised", value |-> message]

Settled(cs) == \A i \in DOMAIN cs : cs[i].pc = "done"
Rejected(cs) == \E i \in DOMAIN cs : cs[i].pc = "raised"
Finished(c) == c.pc \in {"done", "raised"}

\* results.push(...) as each call completes: the results in completion order.
GatherByCompletion(cs, ord) == [i \in DOMAIN cs |-> cs[ord[i]].result[1]]

\* Promise.all: the value of promise i in slot i.
Gather(cs, ord) == [i \in DOMAIN cs |-> cs[i].result[1]]

\* related?.[0]: the first descriptor, whatever its id.
FindFirst(related, id) ==
  IF related = <<>> THEN Absent ELSE Present(related[1])

\* galaxyConfig.related?.find(f => f.id === id)
Find(related, id) ==
  LET hits == SelectSeq(related, LAMBDA f : f.id = id)
  IN  IF hits = <<>> THEN Absent ELSE Present(hits[1])

HasEndpoint(f) == f.apiEndpoint # NoEndpoint

\* related.filter(f => featureIds.includes(f.id)): the endpoint is not looked at.
ResolveAnyRegistered(related, featureIds) ==
  SelectSeq(related, LAMBDA f : f.id \in featureIds)

\* galaxyConfig.related?.filter(f => featureIds.includes(f.id) && f.apiEndpoint) || []
Resolve(related, featureIds) ==
  SelectSeq(related, LAMBDA f : f.id \in featureIds /\ HasEndpoint(f))

\* The aggregation with success: true written out, whatever the responses.
OrchestrationAlwaysSuccess(features, responses) ==
  LET ids == {features[i].id : i \in DOMAIN features}
      results == [id \in ids |->
                    responses[CHOOSE i \in DOMAIN features : features[i].id = id]]
      successful == Cardinality({id \in ids : results[id].success})
  IN  [success |-> TRUE,
       results |-> results,
       summary |-> [total |-> Len(features), successful |-> successful,
                    failed |-> Len(features) - successful]]

\* The aggregation with success: failed.length === 0.
OrchestrationNoFailure(features, responses) ==
  LET ids == {features[i].id : i \in DOMAIN features}
      results == [id \in ids |->
                    responses[CHOOSE i \in DOMAIN features : features[i].id = id]]
      successful == Cardinality({id \in ids : results[id].success})
  IN  [success |-> Len(features) - successful = 0,
       results |-> results,
       summary |-> [total |-> Len(features), successful |-> successful,
                    failed |-> Len(features) - successful]]

\* The aggregation of orchestrateFeatures over the gathered responses.
OrchestrationResult(features, responses) ==
  LET ids == {features[i].id : i \in DOMAIN features}
      results == [id \in ids |->
                    responses[CHOOSE i \in DOMAIN features :
                                features[i].id = id /\
                                \A j \in DOMAIN features : features[j].id = id => j <= i]]
      successful == Cardinality({id \in ids : results[id].success})
      failed == Cardinality({id \in ids : ~results[id].success})
  IN  [success |-> successful > 0,
       results |-> results,
       summary |-> [total |-> Len(features), successful |-> successful, failed |-> failed]]

\* NextResponse.json(body, { status }).
Json(status, body) == [status |-> status, body |-> body]

\* galaxyConfig.related?.filter(f => f.apiEndpoint && features.includes(f.id)) || []
availableFeatures(related, features) ==
  SelectSeq(related, LAMBDA f : HasEndpoint(f) /\ f.id \in features)

\* The payload of every api call of the route.
RoutePayload(payload, userId) ==
  Spread(payload, [calledFrom |-> <<"galaxy-core">>,
                   coreId |-> <<galaxyConfig.id>>,
                   userId |-> <<userId>>])

\* The response with results.pop() for each feature in turn: feature i is
\* paired with the result counted from the end.
PostResponsePopping(features, results) ==
  Json(200,
    [success |-> TRUE,
     orchestrationId |-> <<"orch_", "now">>,
     timestamp |-> <<"timestamp">>,
     calledFeatures |->
       [i \in DOMAIN features |->
          [featureId |-> features[i].id,
           featureName |-> features[i].name,
           endpoint |-> features[i].apiEndpoint,
           success |-> results[Len(results) + 1 - i].success,
           data |-> results[Len(results) + 1 - i].data,
           error |-> results[Len(results) + 1 - i].error]],
     summary |-> [total |-> Len(results),
                  successful |-> Cardinality({i \in DOMAIN results : results[i].success}),
                  failed |-> Cardinality({i \in DOMAIN results : ~results[i].success})]])

\* The response of the route once batchCallFeatureAPIs has returned results.
PostResponse(features, results) ==
  Json(200,
    [success |-> TRUE,
     orchestrationId |-> <<"orch_", "now">>,
     timestamp |-> <<"timestamp">>,
     calledFeatures |->
       [i \in DOMAIN features |->
          [featureId |-> features[i].id,
           featureName |-> features[i].name,
           endpoint |-> features[i].apiEndpoint,
           success |-> results[i].success,
           data |-> results[i].data,
           error |-> results[i].error]],
     summary |-> [total |-> Len(results),
                  successful |-> Cardinality({i \in DOMAIN results : results[i].success}),
                  failed |-> Cardinality({i \in DOMAIN results : ~results[i].success})]])

\* The response of the route's catch block.
PostFailure(message) ==
  Json(500, [success |-> FALSE,
             error |-> <<"Failed to orchestrate feature calls">>,
             message |-> message])

\* The mapping with the probes paired to the features in reverse.
HealthStatusReversed(features, cs) ==
  [id \in {features[i].id : i \in DOMAIN features} |->
     cs[Len(cs) + 1 - (CHOOSE i \in DOMAIN features : features[i].id = id)].healthy[1]]

\* The mapping of checkGalaxyHealth.
HealthStatus(features, cs) ==
  [id \in {features[i].id : i \in DOMAIN features} |->
     cs[CHOOSE i \in DOMAIN features :
          features[i].id = id /\ \A j \in DOMAIN features : features[j].id = id => j <= i].healthy[1]]

\* What the operation o returns once its member calls cs have all returned.
ReturnValue(o, cs, ord) ==
  CASE o.name \in {"callFeatureAPI", "callGalaxyFeature", "callSiblingFeature"} ->
         cs[1].result[1]
    [] o.name = "batchCallFeatureAPIs" -> Gather(cs, ord)
    [] o.name = "orchestrateFeatures" -> OrchestrationResult(o.features, Gather(cs, ord))
    [] o.name = "checkFeatureHealth" -> cs[1].healthy[1]
    [] o.name = "checkGalaxyHealth" -> HealthStatus(o.features, cs)
    [] o.name = "POST" -> PostResponse(o.features, Gather(cs, ord))
    [] OTHER -> <<>>

Indices(n) == [i \in 1..n |-> i]

\* What the operation's promise settles to, given its member calls.
Outcome(o, cs, ord) ==
  IF Rejected(cs)
  THEN LET message == <<cs[CHOOSE i \in DOMAIN cs : cs[i].pc = "raised"].lastError.message>>
       IN  IF o.name = "POST" THEN Value(PostFailure(message)) ELSE Raised(message)
  ELSE IF Settled(cs) THEN Value(ReturnValue(o, cs, ord))
  ELSE Pending

\* A member call runs from its invocation up to its first suspension point.
Begin(c) == IF c.kind = "probe" THEN BeginProbe(c) ELSE Loop(c)

\* for (const r of requests) { await ... }: only the first member is started
\* before the operation waits.
StartSequentially(news) ==
  [i \in DOMAIN news |-> IF i = 1 THEN Begin(news[i]) ELSE news[i]]

\* requests.map(r => callFeatureAPI(...)): every member is invoked, and runs
\* up to its first await, before Promise.all waits for any of them.
StartMembers(news) == [i \in DOMAIN news |-> Begin(news[i])]

\* The operation o starts with the member calls news; a member that has
\* already returned is in the completion order.
Launch(o, news) ==
  LET cs == StartMembers(news)
      ord == SelectSeq(Indices(Len(cs)), LAMBDA i : Finished(cs[i]))
  IN  /\ op' = o
      /\ calls' = cs
      /\ order' = ord
      /\ ret' = Outcome(o, cs, ord)

\* The operation returns at once, without a member call.
ReturnAtOnce(o, r) ==
  /\ op' = o
  /\ calls' = <<>>
  /\ order' = <<>>
  /\ ret' = r

\* The member calls become cs: those that have just finished join the
\* completion order, and the operation settles once all have returned.
Progress(cs) ==
  LET newly == SelectSeq(Indices(Len(cs)),
                 LAMBDA i : Finished(cs[i]) /\ ~Finished(calls[i]))
      ord == order \o newly
  IN  /\ calls' = cs
      /\ order' = ord
      /\ ret' = IF ret.kind = "pending" THEN Outcome(op, cs, ord) ELSE ret
      /\ UNCHANGED <<galaxyConfig, op>>

\* Member i alone becomes c.
Step(i, c) == Progress([calls EXCEPT ![i] = c])

(***************************************************************************)
(* The public operations.  A behaviour is one invocation of one of them.    *)
(***************************************************************************)
Idle == op.name = "idle"

DefaultRetries == 1

\* Object.assign(payload, { _metadata }): the body is built in the caller's
\* own object, which holds the injected field from then on.
callFeatureAPIAssigning(endpoint, payload, retries) ==
  /\ Idle
  /\ Launch([name |-> "callFeatureAPI", endpoint |-> endpoint,
             payload |-> enhancedPayload(payload), retries |-> retries],
            <<NewCall(endpoint, payload, retries)>>)
  /\ UNCHANGED galaxyConfig

callFeatureAPI(endpoint, payload, retries) ==
  /\ Idle
  /\ Launch([name |-> "callFeatureAPI", endpoint |-> endpoint, payload |-> payload,
             retries |-> retries],
            <<NewCall(endpoint, payload, retries)>>)
  /\ UNCHANGED galaxyConfig

batchCallFeatureAPIs(requests) ==
  /\ Idle
  /\ Launch([name |-> "batchCallFeatureAPIs", requests |-> requests],
            [i \in DOMAIN requests |->
               NewCall(requests[i].endpoint, requests[i].payload, requests[i].retries)])
  /\ UNCHANGED galaxyConfig

callGalaxyFeature(featureId, payload) ==
  LET o == [name |-> "callGalaxyFeature", featureId |-> featureId, payload |-> payload]
      feature == Find(galaxyConfig.related, featureId)
  IN  /\ Idle
      /\ IF feature = Absent
         THEN ReturnAtOnce(o, Value(Failure(
                <<"Feature ", featureId, " not found in galaxy config">>,
                Present("Please check your galaxy configuration"))))
         ELSE IF ~HasEndpoint(feature[1])
         THEN ReturnAtOnce(o, Value(Failure(
                <<"Feature ", featureId, " does not have an API endpoint configured">>,
                Present("This feature may not support API calls"))))
         ELSE Launch(o, <<NewCall(feature[1].apiEndpoint, payload, DefaultRetries)>>)
      /\ UNCHANGED galaxyConfig

orchestrateFeatures(featureIds, payload) ==
  LET features == Resolve(galaxyConfig.related, featureIds)
      o == [name |-> "orchestrateFeatures", featureIds |-> featureIds,
            payload |-> payload, features |-> features]
  IN  /\ Idle
      /\ IF ~isCore
         THEN ReturnAtOnce(o, Raised(<<"Orchestration is only available for core apps">>))
         ELSE Launch(o, [i \in DOMAIN features |->
                           NewCall(features[i].apiEndpoint, payload, DefaultRetries)])
      /\ UNCHANGED galaxyConfig

callSiblingFeature(siblingId, payload) ==
  LET o == [name |-> "callSiblingFeature", siblingId |-> siblingId, payload |-> payload]
      sibling == Find(galaxyConfig.related, siblingId)
      caller == [_caller |-> <<galaxyConfig.id, galaxyConfig.name, "sibling">>]
  IN  /\ Idle
      /\ IF ~isFeature
         THEN ReturnAtOnce(o, Value(Failure(
                <<"Sibling calls are only available for feature apps">>,
                Present("Core apps should use orchestrateFeatures instead"))))
         ELSE IF sibling = Absent
         THEN ReturnAtOnce(o, Value(Failure(
                <<"Sibling feature ", siblingId, " not found">>,
                Present("This feature is not configured as a sibling"))))
         ELSE IF ~HasEndpoint(sibling[1])
         THEN ReturnAtOnce(o, Value(Failure(
                <<"Sibling ", siblingId, " does not have an API endpoint">>,
                Present("This sibling feature may not support API calls"))))
         ELSE Launch(o, <<NewCall(sibling[1].apiEndpoint,
                                   Spread(payload, caller), DefaultRetries)>>)
      /\ UNCHANGED galaxyConfig

\* The POST handler of the orchestration route, for a request of the
\* authenticated user userId (absent: not signed in) with the given body.
POST(userId, body) ==
  LET features == availableFeatures(galaxyConfig.related, body.features)
      o == [name |-> "POST", userId |-> userId, body |-> body, features |-> features]
  IN  /\ Idle
      /\ IF userId = Absent
         THEN ReturnAtOnce(o, Value(Json(401,
                [success |-> FALSE, error |-> <<"Authentication required">>])))
         ELSE IF ~isCore
         THEN ReturnAtOnce(o, Value(Json(400,
                [success |-> FALSE,
                 error |-> <<"This endpoint is only available for core apps">>])))
         ELSE IF ~body.json
         THEN ReturnAtOnce(o, Value(PostFailure(<<SyntaxError.message>>)))
         ELSE IF ~body.isArray
         THEN ReturnAtOnce(o, Value(Json(400,
                [success |-> FALSE,
                 error |-> <<"Please provide features array with feature IDs to call">>])))
         ELSE IF features = <<>>
         THEN ReturnAtOnce(o, Value(Json(400,
                [success |-> FALSE,
                 error |-> <<"No valid features with API endpoints found">>])))
         ELSE Launch(o, [i \in DOMAIN features |->
                           NewCall(features[i].apiEndpoint,
                                   RoutePayload(body.payload, userId[1]),
                                   DefaultRetries)])
      /\ UNCHANGED galaxyConfig

checkFeatureHealth(endpoint) ==
  /\ Idle
  /\ Launch([name |-> "checkFeatureHealth", endpoint |-> endpoint], <<NewProbe(endpoint)>>)
  /\ UNCHANGED galaxyConfig

checkGalaxyHealth ==
  LET features == SelectSeq(galaxyConfig.related, HasEndpoint)
      o == [name |-> "checkGalaxyHealth", features |-> features]
  IN  /\ Idle
      /\ IF features = <<>>
         THEN ReturnAtOnce(o, Value(<<>>))
         ELSE Launch(o, [i \in DOMAIN features |-> NewProbe(features[i].apiEndpoint)])
      /\ UNCHANGED galaxyConfig

(***************************************************************************)
(* The events of a member call.                                            *)
(***************************************************************************)
\* The remote answers the fetch in flight with a status and a body.
Respond(i, status, kind) ==
  /\ calls[i].pc = "fetching"
  /\ Step(i, IF calls[i].kind = "probe"
             THEN OnProbeResponse(calls[i], status)
             ELSE OnResponse(calls[i], status, kind))

\* The fetch in flight fails at transport level (connection refused, reset).
TransportError(i) ==
  /\ calls[i].pc = "fetching"
  /\ Step(i, IF calls[i].kind = "probe"
             THEN OnProbeError(calls[i])
             ELSE OnTransportError(calls[i]))

\* The calls whose controller the timer of call i aborts: every controller.
AbortScopeShared(i) == DOMAIN calls

\* The calls whose controller the timer of call i aborts: its own.
AbortScope(i) == {i}

\* The timeout of call i expires: () => controller.abort().
TimerFires(i) ==
  /\ calls[i].timer = "armed"
  /\ calls[i].pc # "start"
  /\ Progress([j \in DOMAIN calls |->
       LET c == IF j = i THEN [calls[j] EXCEPT !.timer = "fired"] ELSE calls[j]
       IN  IF j \in AbortScope(i) /\ ~Finished(c)
           THEN IF c.kind = "probe" THEN OnProbeAbort(c) ELSE OnAbort(c)
           ELSE IF j \in AbortScope(i) THEN [c EXCEPT !.signal = "aborted"]
           ELSE c])

\* The backoff sleep of call i is over.
WakeUp(i) ==
  /\ calls[i].pc = "sleeping"
  /\ Step(i, OnWakeUp(calls[i]))

(***************************************************************************)
(* The system.                                                             *)
(***************************************************************************)
Endpoints == {EndpointA, EndpointC}

\* The requests of a batch address pairwise distinct endpoints.
EndpointAt(i) ==
  CASE i = 1 -> EndpointA [] i = 2 -> EndpointC [] i = 3 -> EndpointX
    [] OTHER -> EndpointY

BatchPayloads == {[q |-> <<"x">>], [q |-> Circular]}

\* The batches of exactly k requests whose retries sum to at most budget.
RECURSIVE BatchesOf(_, _)
BatchesOf(k, budget) ==
  IF k = 0 THEN {<<>>}
  ELSE UNION { { Append(rs, [endpoint |-> EndpointAt(k), payload |-> p, retries |-> n]) :
                   rs \in BatchesOf(k - 1, budget - n), p \in BatchPayloads }
               : n \in 1..(budget - (k - 1)) }

Batches == UNION {BatchesOf(k, MaxBatchAttempts) : k \in 0..MaxBatch}

PathSegments == {"api", "v1", "generate"}

\* The paths of 1..n segments, each segment led by its slash.
RECURSIVE Paths(_)
Paths(n) ==
  IF n = 0 THEN {<<>>}
  ELSE Paths(n - 1) \cup
       {p \o <<"/", seg>> : p \in Paths(n - 1) \ {<<>>}, seg \in PathSegments} \cup
       {<<"/", seg>> : seg \in PathSegments}

\* The endpoints a health check is asked about: a path of at least one
\* segment, with or without /api/, with or without a slash at the end.
HealthEndpoints ==
  {Origin("h.example") \o p \o slash :
     p \in Paths(MaxSegments) \ {<<>>}, slash \in {<<>>, <<"/">>}}

UserIds == {Absent, Present("user_1")}

\* The bodies of a request to the route: not JSON, JSON whose features is
\* not an array, and JSON with an array of feature ids.
RequestBodies ==
  {[json |-> FALSE, isArray |-> FALSE, features |-> {}, payload |-> [q |-> <<"x">>]]}
  \cup {[json |-> TRUE, isArray |-> FALSE, features |-> {}, payload |-> p] : p \in Payloads}
  \cup {[json |-> TRUE, isArray |-> TRUE, features |-> ids, payload |-> p] :
          ids \in SUBSET FeatureIds, p \in Payloads}

\* The values of options.retries: negative, zero, and 1..MaxRetries.
RetryOptions == {-1} \cup (0..MaxRetries)

Init ==
  /\ galaxyConfig \in Configs
  /\ op = [name |-> "idle"]
  /\ calls = <<>>
  /\ order = <<>>
  /\ ret = Value(<<>>)

Invoke ==
  \/ \E e \in Endpoints, p \in Payloads, n \in RetryOptions : callFeatureAPI(e, p, n)
  \/ \E rs \in Batches : batchCallFeatureAPIs(rs)
  \/ \E id \in FeatureIds, p \in Payloads : callGalaxyFeature(id, p)
  \/ \E ids \in SUBSET FeatureIds, p \in Payloads : orchestrateFeatures(ids, p)
  \/ \E id \in FeatureIds, p \in Payloads : callSiblingFeature(id, p)
  \/ \E u \in UserIds, b \in RequestBodies : POST(u, b)
  \/ \E e \in HealthEndpoints : checkFeatureHealth(e)
  \/ checkGalaxyHealth



Event ==
  \/ \E i \in DOMAIN calls, status \in OkStatuses \cup ErrStatuses, kind \in BodyKinds :
       Respond(i, status, kind)
  \/ \E i \in DOMAIN calls : TransportError(i)
  \/ \E i \in DOMAIN calls : TimerFires(i)
  \/ \E i \in DOMAIN calls : WakeUp(i)

Next == Invoke \/ Event

Spec == Init /\ [][Next]_vars

(***************************************************************************)
(* Properties.                                                             *)
(***************************************************************************)
CallMembers == {i \in DOMAIN calls : calls[i].kind = "call"}

FanOut == op.name \in {"batchCallFeatureAPIs", "orchestrateFeatures", "checkGalaxyHealth"}

RECURSIVE Sum(_)
Sum(s) == IF s = <<>> THEN 0 ELSE Head(s) + Sum(Tail(s))

\* The attempt outcomes that are transport failures.
TransportEvents == {"neterr", "timeout", "preaborted"}

InFlight(c) == IF c.pc = "fetching" THEN 1 ELSE 0

\* C1: a call with retries = n >= 1 whose attempts all fail at transport
\* level makes exactly n attempts (invocations of fetch), sleeps 2^k seconds
\* after failed attempt k for k = 0..n-2 and not after the last one (in
\* total 2^(n-1) - 1 seconds), and then returns a failed result.
C1_RetryBound ==
  \A i \in CallMembers :
    LET c == calls[i]
        n == c.retries
    IN  (n >= 1 /\ Range(c.hist) \subseteq TransportEvents) =>
          /\ c.fetches = Len(c.hist) + InFlight(c)
          /\ c.fetches <= n
          /\ c.sleeps = [k \in 1..Len(c.sleeps) |-> Pow2(k - 1)]
          /\ Len(c.sleeps) = IF c.pc = "done" THEN Len(c.hist) - 1 ELSE Len(c.hist)
          /\ c.pc = "done" <=> Len(c.hist) = n
          /\ c.pc = "done" =>
               /\ c.fetches = n
               /\ Len(c.sleeps) = n - 1
               /\ Sum(c.sleeps) = Pow2(n - 1) - 1
               /\ ~c.result[1].success

\* Three attempts refused by the remote: sleeps of 1 s and 2 s, then failure.
C1_Witness ==
  \E i \in CallMembers :
    /\ calls[i].retries = 3
    /\ calls[i].hist = <<"neterr", "neterr", "neterr">>
    /\ calls[i].pc = "done"
    /\ calls[i].sleeps = <<1, 2>>

\* C2 (as claimed): no attempt starts with a cancellation token that has
\* already expired; after a timeout, or a timer that ran out during the
\* backoff sleep, the next attempt gets a fresh token.
C2_FreshTokenPerAttempt ==
  \A i \in CallMembers :
    \A k \in DOMAIN calls[i].hist : calls[i].hist[k] # "preaborted"

\* C3 (as claimed): whatever the remote has done so far (answered, refused,
\* answered with an unparseable body, kept silent until the timeout), a call
\* that has not returned is bounded by a timer of its own, the timeout of
\* the attempt in flight or the backoff sleep, so that it reaches DONE even
\* if the remote never responds again.
C3_EveryAttemptBounded ==
  \A i \in CallMembers :
    Range(calls[i].hist) \subseteq {"2xx", "non2xx", "neterr", "2xx-unparseable",
                                    "timeout", "preaborted"} =>
      \/ calls[i].pc \in {"done", "sleeping"}
      \/ calls[i].pc = "fetching" /\ calls[i].timer = "armed"

\* C4 (as claimed): the attempt that receives a non-2xx status is the last
\* one: the call has returned a failed result, with no backoff sleep and no
\* further fetch after it, whatever the body was.
C4_RejectionNotRetried ==
  \A i \in CallMembers :
    LET c == calls[i]
    IN  \A k \in DOMAIN c.hist :
          c.hist[k] \in {"non2xx", "non2xx-null"} =>
            /\ k = Len(c.hist)
            /\ c.pc = "done"
            /\ ~c.result[1].success
            /\ Len(c.sleeps) = k - 1
            /\ c.fetches = k

\* C5: batchCallFeatureAPIs returns one result per request, and position i
\* holds the result of the call made for request i (sent to request i's
\* endpoint and answered by it), whatever the completion order.
C5_OrderPreserved ==
  op.name = "batchCallFeatureAPIs" =>
    /\ ret.kind # "raised"
    /\ DOMAIN calls = DOMAIN op.requests
    /\ ret.kind = "value" <=> Settled(calls)
    /\ ret.kind = "value" =>
         /\ Len(ret.value) = Len(op.requests)
         /\ \A i \in DOMAIN op.requests :
              /\ calls[i].endpoint = op.requests[i].endpoint
              /\ ret.value[i] = calls[i].result[1]
              /\ ret.value[i].success =>
                   ret.value[i].data[1][2] = op.requests[i].endpoint

\* The second request completed first and failed, the first one succeeded.
C5_Witness ==
  /\ op.name = "batchCallFeatureAPIs"
  /\ ret.kind = "value"
  /\ order = <<2, 1>>
  /\ ret.value[1].success
  /\ ~ret.value[2].success

\* C6: in a fan-out, a step of one member call (its failure, rejection or
\* timeout) leaves every other member call as it was, and a member call is
\* aborted, or reports a timeout, only if its own timeout expired.
C6_MembersIsolated ==
  /\ [][ (FanOut /\ op' = op) =>
           \A i, j \in DOMAIN calls :
             (i # j /\ calls'[i] # calls[i]) => calls'[j] = calls[j] ]_vars
  /\ [](FanOut =>
          \A j \in DOMAIN calls :
            /\ calls[j].signal = "aborted" => calls[j].timer = "fired"
            /\ (calls[j].result # Absent /\
                calls[j].result[1].error = Present(<<"Request timeout">>))
                 => calls[j].timer = "fired")

\* The first member timed out; the second one then succeeded.
C6_Witness ==
  /\ op.name \in {"batchCallFeatureAPIs", "orchestrateFeatures"}
  /\ Len(calls) = 2
  /\ order = <<1, 2>>
  /\ calls[1].hist = <<"timeout">>
  /\ calls[1].result[1].error = Present(<<"Request timeout">>)
  /\ calls[2].timer = "cleared"
  /\ calls[2].result[1].success

\* The number of member calls the running fan-out has.
ExpectedMembers ==
  IF op.name = "batchCallFeatureAPIs" THEN Len(op.requests)
  ELSE IF ret.kind = "raised" THEN 0
  ELSE Len(op.features)

\* C7: in every state of a fan-out, so before any response is waited for,
\* every member has begun its first attempt (its fetch has been invoked,
\* unless its payload cannot be serialised).
C7_AllStartedBeforeWaiting ==
  FanOut =>
    /\ Len(calls) = ExpectedMembers
    /\ \A i \in DOMAIN calls :
         /\ calls[i].pc # "start"
         /\ calls[i].fetches >= 1 \/ "unserialisable" \in Range(calls[i].hist)

\* The first member's remote is silent while the second has answered.
C7_Witness ==
  /\ FanOut
  /\ Len(calls) = 2
  /\ calls[1].pc = "fetching" /\ calls[1].hist = <<>> /\ calls[1].fetches = 1
  /\ calls[2].pc = "done" /\ calls[2].hist \in {<<"2xx">>}

Envelope(r) ==
  /\ r.success <=> (r.data # Absent /\ r.error = Absent)
  /\ ~r.success => r.error # Absent

\* C8: every result returned by callFeatureAPI (as an operation or as a
\* member call), callGalaxyFeature and callSiblingFeature has success = true
\* iff data is present and error absent, and an error whenever success = false.
C8_EnvelopeInvariant ==
  /\ \A i \in CallMembers : calls[i].result # Absent => Envelope(calls[i].result[1])
  /\ (op.name \in {"callFeatureAPI", "callGalaxyFeature", "callSiblingFeature"}
      /\ ret.kind = "value") => Envelope(ret.value)

\* A 500 whose body has no error field: the error is made from the status.
C8_Witness ==
  /\ op.name = "callFeatureAPI"
  /\ ret.kind = "value"
  /\ calls[1].hist = <<"non2xx">>
  /\ ret.value.error = Present(StatusText(500))
  /\ ret.value.message = Absent

\* C9 (as claimed): orchestrateFeatures on an instance that is not core
\* returns a failed result value, raises nothing and makes no call.
C9_RoleViolationReturned ==
  (op.name = "orchestrateFeatures" /\ ~isCore) =>
    /\ calls = <<>>
    /\ ret.kind = "value"
    /\ ~ret.value.success

\* C10: callFeatureAPI never raises: no error escapes a member call, and
\* once every attempt is over the operation has returned a result.
C10_NeverRaises ==
  op.name = "callFeatureAPI" =>
    /\ ret.kind # "raised"
    /\ \A i \in DOMAIN calls : calls[i].pc # "raised"
    /\ ret.kind = "value" <=> calls[1].pc = "done"
    /\ ret.kind = "value" => ret.value.success \in BOOLEAN

\* A payload that cannot be serialised ends in a returned failure.
C10_Witness ==
  /\ op.name = "callFeatureAPI"
  /\ op.payload = [q |-> Circular]
  /\ op.retries = 2
  /\ ret.kind = "value"
  /\ ret.value = ErrorResult(StringifyError)
  /\ calls[1].fetches = 0

\* The requested ids that the Registry lists with an apiEndpoint.
Callable(featureIds) ==
  {id \in featureIds :
     \E i \in DOMAIN galaxyConfig.related :
       /\ galaxyConfig.related[i].id = id
       /\ galaxyConfig.related[i].apiEndpoint # NoEndpoint}

\* The endpoint the Registry lists for id.
EndpointOf(id) ==
  galaxyConfig.related[CHOOSE i \in DOMAIN galaxyConfig.related :
                         galaxyConfig.related[i].id = id].apiEndpoint

\* C11: on a core, orchestrateFeatures calls exactly the requested ids that
\* the Registry lists with an apiEndpoint, one call each; the keys of results
\* are exactly those ids and summary.total is their number.
C11_OnlyCallableFeatures ==
  (op.name = "orchestrateFeatures" /\ isCore) =>
    /\ Len(calls) = Cardinality(Callable(op.featureIds))
    /\ {calls[i].endpoint : i \in DOMAIN calls} =
         {EndpointOf(id) : id \in Callable(op.featureIds)}
    /\ ret.kind = "value" =>
         /\ DOMAIN ret.value.results = Callable(op.featureIds)
         /\ ret.value.summary.total = Cardinality(Callable(op.featureIds))

\* Registry {A with endpoint, B without, C with endpoint}, request
\* {A, B, C, D}: results for exactly A and C, total 2.
C11_Witness ==
  /\ op.name = "orchestrateFeatures"
  /\ isCore
  /\ op.featureIds = {"A", "B", "C", "D"}
  /\ galaxyConfig.related = Related
  /\ ret.kind = "value"
  /\ DOMAIN ret.value.results = {"A", "C"}
  /\ ret.value.summary.total = 2
  /\ Len(calls) = 2

\* C12: every result orchestrateFeatures returns has success =
\* (summary.successful > 0), summary.total = the number of keys of results,
\* and summary.successful + summary.failed = summary.total, where successful
\* counts the keys whose CallResult succeeded.
C12_SummaryConsistent ==
  (op.name = "orchestrateFeatures" /\ ret.kind = "value") =>
    LET r == ret.value
        keys == DOMAIN r.results
    IN  /\ r.success = (r.summary.successful > 0)
        /\ r.summary.total = Cardinality(keys)
        /\ r.summary.successful + r.summary.failed = r.summary.total
        /\ r.summary.successful = Cardinality({id \in keys : r.results[id].success})
        /\ \A i \in DOMAIN calls :
             \E id \in keys : r.results[id] = calls[i].result[1]

\* One call succeeds and one fails: success true, summary {2, 1, 1}.
C12_Witness ==
  /\ op.name = "orchestrateFeatures"
  /\ ret.kind = "value"
  /\ ret.value.success
  /\ ret.value.summary = [total |-> 2, successful |-> 1, failed |-> 1]
  /\ \E id \in DOMAIN ret.value.results : ~ret.value.results[id].success

\* C13 (as claimed): callSiblingFeature never sends a request to the calling
\* feature itself: with siblingId equal to the instance's own id it makes no
\* call and returns a failed CallResult, whatever the Registry lists.
C13_NeverCallsItself ==
  (op.name = "callSiblingFeature" /\ op.siblingId = galaxyConfig.id) =>
    /\ \A i \in DOMAIN calls : calls[i].fetches = 0
    /\ ret.kind = "value" => ~ret.value.success

\* The operations that pass the caller's payload to callFeatureAPI as it is.
PassesPayload == op.name \in {"callFeatureAPI", "callGalaxyFeature", "orchestrateFeatures"}

\* The body of call i is payload plus the injected fields, which replace
\* what the payload held under their keys.
BodyIs(i, payload, injected) ==
  /\ DOMAIN calls[i].body = (DOMAIN payload) \cup (DOMAIN injected)
  /\ \A k \in DOMAIN injected : calls[i].body[k] = injected[k]
  /\ \A k \in (DOMAIN payload) \ (DOMAIN injected) : calls[i].body[k] = payload[k]

SiblingCaller == <<galaxyConfig.id, galaxyConfig.name, "sibling">>

C15_OrchestrationAugmented ==
  op.name \in {"orchestrateFeatures", "POST"} =>
    \A i \in CallMembers :
      calls[i].fetches > 0 =>
        /\ {"calledFrom", "coreId"} \subseteq DOMAIN calls[i].body
        /\ calls[i].body.calledFrom = <<"galaxy-core">>
        /\ calls[i].body.coreId = <<galaxyConfig.id>>

\* C16 (as claimed): a 2xx response ends the call on that attempt with
\* {success: true, data: body}: once a 2xx has been received the call has
\* returned a successful result, and no attempt follows it.
C16_OkEndsTheCall ==
  \A i \in CallMembers :
    \A k \in DOMAIN calls[i].hist :
      calls[i].hist[k] \in {"2xx", "2xx-unparseable"} =>
        /\ k = Len(calls[i].hist)
        /\ calls[i].fetches = k
        /\ calls[i].pc = "done"
        /\ calls[i].result[1].success
        /\ calls[i].result[1].data # Absent

\* The event that ended the last attempt of a call that has returned.
FinalEvent(c) == c.hist[Len(c.hist)]

\* C17 (as claimed): when the final permitted attempt fails at transport
\* level, the result's error is "Request timeout" iff that attempt ran into
\* the timeout (the timer expired while its request was in flight); another
\* transport error on the final attempt is passed on with its own message.
C17_TimeoutIffAttemptTimedOut ==
  \A i \in CallMembers :
    (/\ calls[i].pc = "done"
     /\ calls[i].hist # <<>>
     /\ calls[i].attempt = calls[i].retries - 1
     /\ FinalEvent(calls[i]) \in {"timeout", "preaborted", "neterr"}) =>
      /\ ~calls[i].result[1].success
      /\ calls[i].result[1].error = Present(<<"Request timeout">>)
           <=> FinalEvent(calls[i]) = "timeout"
      /\ FinalEvent(calls[i]) = "neterr" =>
           calls[i].result[1].error = Present(<<NetworkError.message>>)

\* The probes under way, each with the apiEndpoint it was asked about.
ProbedEndpoints ==
  IF op.name = "checkFeatureHealth" THEN {<<op.endpoint, calls[1].endpoint>>}
  ELSE IF op.name = "checkGalaxyHealth"
  THEN {<<op.features[i].apiEndpoint, calls[i].endpoint>> : i \in DOMAIN calls}
  ELSE {}

\* apiEndpoint with its final path segment replaced by health: the segment
\* is the last text of the URL, before the slash at its end if it has one.
WithFinalSegmentHealth(endpoint) ==
  LET n == IF endpoint[Len(endpoint)] = "/" THEN Len(endpoint) - 1 ELSE Len(endpoint)
  IN  SubSeq(endpoint, 1, n - 1) \o <<"health">>

\* C18 (as claimed): the URL a health check probes is the apiEndpoint with
\* its final path segment replaced by health and nothing else appended (a
\* slash at the end kept or not), for every endpoint with a path segment.
C18_FinalSegmentReplaced ==
  \A pe \in ProbedEndpoints :
    \/ pe[2] = WithFinalSegmentHealth(pe[1])
    \/ pe[2] = WithFinalSegmentHealth(pe[1]) \o <<"/">>

\* C19 (as claimed): the response of the orchestration POST route that
\* reports the calls has success = (summary.successful > 0); a run in which
\* every call failed has success = false.
C19_PostSuccessFromSummary ==
  (op.name = "POST" /\ ret.kind = "value" /\ ret.value.status = 200) =>
    ret.value.body.success = (ret.value.body.summary.successful > 0)

\* C20: on a core, when no requested id is listed in the Registry with an
\* apiEndpoint, orchestrateFeatures makes no call and returns at once
\* success = false, summary {0, 0, 0} and empty results.
C20_NothingCallable ==
  (op.name = "orchestrateFeatures" /\ isCore /\ Callable(op.featureIds) = {}) =>
    /\ calls = <<>>
    /\ ret.kind = "value"
    /\ ~ret.value.success
    /\ DOMAIN ret.value.results = {}
    /\ ret.value.summary = [total |-> 0, successful |-> 0, failed |-> 0]

\* B (no endpoint) and D (not in the Registry) are requested from a core
\* whose Registry lists other features with endpoints.
C20_Witness ==
  /\ op.name = "orchestrateFeatures"
  /\ isCore
  /\ galaxyConfig.related = Related
  /\ op.featureIds = {"B", "D"}
  /\ calls = <<>>
  /\ ret.kind = "value"
  /\ ~ret.value.success
  /\ ret.value.summary.total = 0

\* C21: callSiblingFeature on an instance whose role is not feature makes
\* no call, raises nothing and returns the failed CallResult "Sibling calls
\* are only available for feature apps", whatever the Registry holds for
\* siblingId: the role is tested before the Registry is looked at.
C21_SiblingRoleGate ==
  (op.name = "callSiblingFeature" /\ ~(galaxyConfig.type = "feature")) =>
    /\ calls = <<>>
    /\ ret.kind = "value"
    /\ ~ret.value.success
    /\ ret.value.data = Absent
    /\ ret.value.error =
         Present(<<"Sibling calls are only available for feature apps">>)

\* A core whose Registry is empty asks for a sibling: the answer is the
\* role error, not "not found".
C21_Witness ==
  /\ op.name = "callSiblingFeature"
  /\ galaxyConfig.type = "core"
  /\ galaxyConfig.related = <<>>
  /\ op.siblingId = "D"
  /\ calls = <<>>
  /\ ret = Value(Failure(<<"Sibling calls are only available for feature apps">>,
                         Present("Core apps should use orchestrateFeatures instead")))

\* The Registry lists a descriptor with this id.
Registered(id) ==
  \E i \in DOMAIN galaxyConfig.related : galaxyConfig.related[i].id = id

\* C22: on a feature instance, callSiblingFeature makes a call only when the
\* Registry lists siblingId with an apiEndpoint; an id the Registry does not
\* list gives "Sibling feature <id> not found" and a descriptor without
\* endpoint gives "Sibling <id> does not have an API endpoint", both without
\* a call; the call it makes goes to that endpoint and has one attempt.
C22_SiblingResolution ==
  (op.name = "callSiblingFeature" /\ galaxyConfig.type = "feature") =>
    /\ ~Registered(op.siblingId) =>
         /\ calls = <<>>
         /\ ret.kind = "value" /\ ~ret.value.success
         /\ ret.value.error = Present(<<"Sibling feature ", op.siblingId, " not found">>)
    /\ (Registered(op.siblingId) /\ Callable({op.siblingId}) = {}) =>
         /\ calls = <<>>
         /\ ret.kind = "value" /\ ~ret.value.success
         /\ ret.value.error =
              Present(<<"Sibling ", op.siblingId, " does not have an API endpoint">>)
    /\ Callable({op.siblingId}) # {} =>
         /\ Len(calls) = 1
         /\ calls[1].endpoint = EndpointOf(op.siblingId)
         /\ calls[1].retries = 1
         /\ calls[1].attempt = 0
         /\ calls[1].sleeps = <<>>
         /\ calls[1].fetches = IF Serialisable(calls[1].body) THEN 1 ELSE 0
         /\ calls[1].pc \in {"fetching", "done"}

\* The one attempt of a sibling call failed at transport level and the call
\* returned without another.
C22_Witness ==
  /\ op.name = "callSiblingFeature"
  /\ galaxyConfig.type = "feature"
  /\ op.siblingId = "A"
  /\ calls[1].hist = <<"neterr">>
  /\ calls[1].fetches = 1
  /\ ret.kind = "value"
  /\ ret.value.error = Present(<<NetworkError.message>>)

\* C23: checkFeatureHealth never raises; it returns once its one GET is
\* over, true iff the GET was answered with a 2xx status and false for any
\* other status, for a connection error and for the 5000 ms timeout.
C23_HealthCollapse ==
  op.name = "checkFeatureHealth" =>
    /\ Len(calls) = 1
    /\ ret.kind # "raised"
    /\ calls[1].pc # "raised"
    /\ calls[1].fetches = 1
    /\ ret.kind = "value" <=> calls[1].pc = "done"
    /\ ret.kind = "value" =>
         /\ ret.value \in BOOLEAN
         /\ calls[1].hist \in {<<"2xx">>, <<"non2xx">>, <<"neterr">>, <<"timeout">>}
         /\ ret.value <=> calls[1].hist = <<"2xx">>

\* The probe ran into its timeout and the check returned false.
C23_Witness ==
  /\ op.name = "checkFeatureHealth"
  /\ calls[1].hist = <<"timeout">>
  /\ ret = Value(FALSE)

\* The ids the Registry lists with an apiEndpoint.
WithEndpoint ==
  {galaxyConfig.related[i].id : i \in
     {j \in DOMAIN galaxyConfig.related : galaxyConfig.related[j].apiEndpoint # NoEndpoint}}

\* C24: checkGalaxyHealth probes exactly the Registry's descriptors that
\* have an apiEndpoint, once each; the keys of its result are their ids (none
\* for an empty Registry) and the value under an id is what the probe made
\* for that descriptor's endpoint returned, whatever the completion order.
C24_HealthStatusKeys ==
  op.name = "checkGalaxyHealth" =>
    /\ ret.kind # "raised"
    /\ Len(calls) = Cardinality(WithEndpoint)
    /\ \A id \in WithEndpoint :
         \E i \in DOMAIN calls :
           /\ calls[i].kind = "probe"
           /\ calls[i].endpoint = healthEndpoint(EndpointOf(id))
           /\ ret.kind = "value" => ret.value[id] = calls[i].healthy[1]
    /\ ret.kind = "value" <=> Settled(calls)
    /\ ret.kind = "value" => DOMAIN ret.value = WithEndpoint

\* The probe of C completed first and failed, the probe of A then succeeded:
\* A is reported healthy, C is not, and B (no endpoint) is not reported.
C24_Witness ==
  /\ op.name = "checkGalaxyHealth"
  /\ galaxyConfig.related = Related
  /\ order = <<2, 1>>
  /\ ret.kind = "value"
  /\ DOMAIN ret.value = {"A", "C"}
  /\ ret.value["A"]
  /\ ~ret.value["C"]

\* The caller's arguments, as the objects the caller still holds, are
\* values a caller can have passed: nothing has been written into them.
ArgumentsIntact ==
  /\ op.name \in {"callFeatureAPI", "callGalaxyFeature", "orchestrateFeatures",
                  "callSiblingFeature"} => op.payload \in Payloads
  /\ op.name = "batchCallFeatureAPIs" => op.requests \in Batches
  /\ op.name = "POST" => op.body \in RequestBodies
  /\ op.name = "checkFeatureHealth" => op.endpoint \in HealthEndpoints

NameOf(id) ==
  galaxyConfig.related[CHOOSE i \in DOMAIN galaxyConfig.related :
                         galaxyConfig.related[i].id = id].name

\* C26: the 200 response of the orchestration POST route has one
\* calledFeatures entry per requested feature the Registry lists with an
\* endpoint; an entry carries that feature's id, name and endpoint and the
\* success, data and error of the call that was sent to that endpoint,
\* whatever the completion order; summary.total is the number of entries
\* and summary.successful + summary.failed = summary.total.
C26_CalledFeaturesPaired ==
  (op.name = "POST" /\ ret.kind = "value" /\ ret.value.status = 200) =>
    LET b == ret.value.body
        cf == b.calledFeatures
    IN  /\ Len(cf) = Cardinality(Callable(op.body.features))
        /\ {cf[i].featureId : i \in DOMAIN cf} = Callable(op.body.features)
        /\ Len(calls) = Len(cf)
        /\ \A i \in DOMAIN cf :
             /\ cf[i].featureName = NameOf(cf[i].featureId)
             /\ cf[i].endpoint = EndpointOf(cf[i].featureId)
             /\ \E j \in DOMAIN calls :
                  /\ calls[j].endpoint = cf[i].endpoint
                  /\ cf[i].success = calls[j].result[1].success
                  /\ cf[i].data = calls[j].result[1].data
                  /\ cf[i].error = calls[j].result[1].error
             /\ cf[i].success => cf[i].data[1][2] = cf[i].endpoint
        /\ b.summary.total = Len(cf)
        /\ b.summary.successful = Cardinality({i \in DOMAIN cf : cf[i].success})
        /\ b.summary.successful + b.summary.failed = b.summary.total

\* The call to the second feature completed first and failed, the call to
\* the first then succeeded: entry 1 reports the success, entry 2 the failure.
C26_Witness ==
  /\ op.name = "POST"
  /\ ret.kind = "value"
  /\ ret.value.status = 200
  /\ order = <<2, 1>>
  /\ Len(ret.value.body.calledFeatures) = 2
  /\ ret.value.body.calledFeatures[1].featureId = "A"
  /\ ret.value.body.calledFeatures[1].success
  /\ ~ret.value.body.calledFeatures[2].success
  /\ ret.value.body.summary = [total |-> 2, successful |-> 1, failed |-> 1]

\* C27 (as claimed): the URL probed for a feature instance of the template,
\* registered with its apiEndpoint .../api/feature, is a URL that instance
\* serves, that of its liveness GET handler.
C27_ProbeIsServed ==
  \A pe \in ProbedEndpoints :
    pe[1] \in ServedRoutes(pe[1]) => pe[2] \in ServedRoutes(pe[1])

\* C28: the fields this layer injects have the injected value in every body
\* it builds, also over a payload that holds the same keys: _metadata in
\* every call, _caller in every sibling call, and calledFrom, coreId and
\* userId in every call of the orchestration POST route.
C28_InjectedFieldsWin ==
  \A i \in CallMembers :
    /\ "_metadata" \in DOMAIN calls[i].body
    /\ calls[i].body._metadata = Metadata
    /\ op.name = "callSiblingFeature" =>
         /\ "_caller" \in DOMAIN calls[i].body
         /\ calls[i].body._caller = SiblingCaller
    /\ op.name = "POST" =>
         /\ {"calledFrom", "coreId", "userId"} \subseteq DOMAIN calls[i].body
         /\ calls[i].body.calledFrom = <<"galaxy-core">>
         /\ calls[i].body.coreId = <<galaxyConfig.id>>
         /\ calls[i].body.userId = op.userId

\* The route has sent a request for a payload that holds all five keys: the
\* body carries the route's values and the executor's _metadata.
C28_Witness ==
  /\ op.name = "POST"
  /\ op.body.payload = Forged
  /\ Len(calls) >= 1
  /\ calls[1].fetches = 1
  /\ calls[1].body.calledFrom = <<"galaxy-core">>
  /\ calls[1].body.coreId = <<galaxyConfig.id>>
  /\ calls[1].body.userId = <<"user_1">>
  /\ calls[1].body._metadata = Metadata
  /\ calls[1].body._caller = <<"forged">>

\* Call i has returned on a 2xx response whose body parsed.
ReturnedOnOk(i) ==
  /\ calls[i].pc = "done"
  /\ calls[i].hist # <<>>
  /\ FinalEvent(calls[i]) = "2xx"

\* C29: the success flag of a CallResult follows the response's status and
\* not what the body says: a call that ends on a 2xx with a JSON body, one
\* that reports success: false included, returns success = true with that
\* body as data, and orchestrateFeatures and the POST route count exactly
\* those calls in summary.successful.
C29_SuccessByStatus ==
  /\ \A i \in CallMembers :
       calls[i].pc = "done" =>
         /\ calls[i].result[1].success <=> ReturnedOnOk(i)
         /\ ReturnedOnOk(i) =>
              \E kind \in BodyKinds :
                /\ Parseable(kind)
                /\ calls[i].result[1].data = Present(BodyOf(calls[i].endpoint, kind))
  /\ (op.name = "orchestrateFeatures" /\ ret.kind = "value") =>
       ret.value.summary.successful = Cardinality({i \in DOMAIN calls : ReturnedOnOk(i)})
  /\ (op.name = "POST" /\ ret.kind = "value" /\ ret.value.status = 200) =>
       ret.value.body.summary.successful =
         Cardinality({i \in DOMAIN calls : ReturnedOnOk(i)})

\* A feature answered 200 with a body that reports success: false; the
\* orchestration counts the call as successful and returns the body as data.
C29_Witness ==
  /\ op.name = "orchestrateFeatures"
  /\ op.featureIds = {"A"}
  /\ ret.kind = "value"
  /\ ReportsFailure("object")
  /\ DOMAIN ret.value.results = {"A"}
  /\ ret.value.results["A"] = Success(BodyOf(EndpointA, "object"))
  /\ ret.value.success
  /\ ret.value.summary = [total |-> 1, successful |-> 1, failed |-> 0]

AllAttemptsFailed == Failure(<<"Unknown error">>, Present("All retry attempts failed"))

\* C30: a call with retries <= 0 has returned, without a request and
\* without an attempt, the failed CallResult "Unknown error" / "All retry
\* attempts failed"; a call with retries >= 1 never returns the result of
\* the return after the loop.
C30_FallThroughOnlyWithoutAttempts ==
  \A i \in CallMembers :
    /\ calls[i].retries <= 0 =>
         /\ calls[i].pc = "done"
         /\ calls[i].fetches = 0
         /\ calls[i].hist = <<>>
         /\ calls[i].sleeps = <<>>
         /\ calls[i].result = Present(AllAttemptsFailed)
    /\ (calls[i].retries >= 1 /\ calls[i].pc = "done") =>
         /\ calls[i].hist # <<>>
         /\ calls[i].attempt = calls[i].retries - 1 \/ FinalEvent(calls[i]) \in {"2xx", "non2xx"}
         /\ calls[i].result[1].message # Present("All retry attempts failed")

\* callFeatureAPI with retries: -1 has returned the fall-through result.
C30_Witness ==
  /\ op.name = "callFeatureAPI"
  /\ op.retries = -1
  /\ calls[1].fetches = 0
  /\ ret = Value(AllAttemptsFailed)

====
